---- MODULE Spec2Model ----
(***************************************************************************)
(* State-machine model of lenet.py: the training loop (training_loop), the *)
(* two epoch routines (train, validate) and the accuracy metric            *)
(* (get_accuracy).  The tensor library is external: the loss of a batch is *)
(* read from a table chosen at the start, the number of correct            *)
(* predictions of a batch is any number up to its size, and any call into  *)
(* the library may raise.  Floating-point quotients are kept as exact      *)
(* fractions <<numerator, denominator>>.  best_loss is assigned once and   *)
(* never read, and has no variable here.                                   *)
(***************************************************************************)
EXTENDS Integers, Sequences, FiniteSets, TLC

\* ------------------------------------------------------------- bounds
MaxEpochs == 4
MaxPrintEvery == 3
MaxDataset == 3
MaxBatchSize == 2

\* The values criterion(y_hat, y_true).item() may take for one batch.
LossValues == {1, 2}

\* The places of a traversal the loss table tells apart.
LossPlaces == 0..1

VARIABLES
    epochs,          \* training_loop argument
    print_every,     \* training_loop argument
    train_loader,    \* [dataset_len, batch_size, drop_last]
    valid_loader,    \* [dataset_len, batch_size, drop_last]
    loss_of,         \* what criterion gives for the batch at an even / odd place
    pc,              \* position of the single thread of control
    epoch,           \* loop variable of training_loop
    training,        \* model.training: TRUE after model.train(), FALSE after model.eval()
    grad_enabled,    \* torch's global gradient-tracking switch
    grad_stack,      \* values saved by the active torch.no_grad() blocks
    params,          \* version of the model parameters
    opt_state,       \* number of updates of the optimizer's moment estimates
    grads,           \* backward passes accumulated in the .grad buffers
    graph,           \* the last forward pass recorded an autograd graph
    train_losses,    \* list of per-epoch training losses
    valid_losses,    \* list of per-epoch validation losses
    console,         \* epochs for which a line was printed
    n_plots,         \* number of calls of plot_losses
    returned,        \* training_loop returned its result
    i,               \* number of batches the running for loop has taken
    X_size,          \* X.size(0) of the current batch
    loss,            \* loss.item() of the current batch
    running_loss,    \* local of train / validate
    correct_pred,    \* local of get_accuracy: the int 0, then a tensor
    n,               \* local of get_accuracy
    batch_correct,   \* (predicted_labels == y_true).sum() of the current batch
    which,           \* the loader get_accuracy was called with: "train", "valid"
    accs,            \* accuracies measured for the current report
    \* ---- observers: they record what happened and are never read by the code
    seen,            \* batches of the last traversal: <<size, value>>, kept
                     \* until the caller's next step
    events,          \* steps taken for the current batch of train
    fwd_log,         \* <<routine, training, grad_enabled>> of the last forward pass
    train_runs,      \* completed calls of train
    valid_runs,      \* completed calls of validate
    last_ret,        \* value the last call returned, kept until the caller's next step
    snap,            \* <<params, opt_state, grads>> at entry of validate / get_accuracy
    faults           \* number of exceptions raised

vars == << epochs, print_every, train_loader, valid_loader, loss_of, pc, epoch, training,
           grad_enabled, grad_stack, params, opt_state, grads, graph,
           train_losses, valid_losses, console, n_plots, returned, i, X_size,
           loss, running_loss, correct_pred, n, batch_correct, which, accs,
           seen, events, fwd_log, train_runs, valid_runs, last_ret, snap, faults >>

inputs == << epochs, print_every, train_loader, valid_loader, loss_of >>
modelState == << training, params, opt_state, grads, graph >>
gradCtx == << grad_enabled, grad_stack >>
loopState == << epoch, train_losses, valid_losses, console, n_plots, returned, accs >>
frame == << i, X_size, loss, running_loss >>
accFrame == << correct_pred, n, batch_correct, which >>
observers == << seen, events, fwd_log, train_runs, valid_runs, last_ret, snap >>

None == "None"

\* correct_pred = 0 is a Python int; correct_pred += tensor makes it a tensor.
IntZero == [tensor |-> FALSE, value |-> 0]
Tensor(v) == [tensor |-> TRUE, value |-> v]

\* ------------------------------------------------------------ helpers
RECURSIVE SumSizes(_)
SumSizes(s) == IF s = << >> THEN 0 ELSE s[1][1] + SumSizes(Tail(s))

RECURSIVE SumValues(_)
SumValues(s) == IF s = << >> THEN 0 ELSE s[1][2] + SumValues(Tail(s))

RECURSIVE SumWeighted(_)
SumWeighted(s) == IF s = << >> THEN 0 ELSE s[1][1] * s[1][2] + SumWeighted(Tail(s))

\* Equality of two fractions <<a, b>> and <<c, d>> with b, d > 0.
FracEq(p, q) == p[1] * q[2] = q[1] * p[2]

\* The batch sizes a DataLoader yields in one traversal.
BatchSizes(ld) ==
    LET full == ld.dataset_len \div ld.batch_size
        rest == ld.dataset_len % ld.batch_size
    IN  [j \in 1..full |-> ld.batch_size]
        \o (IF rest > 0 /\ ~ld.drop_last THEN << rest >> ELSE << >>)

Loader(len, bs, dl) == [dataset_len |-> len, batch_size |-> bs, drop_last |-> dl]

\* len(loader.dataset)
DatasetLen(ld) == ld.dataset_len

\* print_every's test of training_loop
ShouldReportSkewed(e, k) == e % k = 0
ShouldReport(e, k) == e % k = (k - 1)

\* ---------------------------------------------------------------- Init
Init ==
    /\ epochs \in 0..MaxEpochs
    /\ print_every \in 1..MaxPrintEvery
    /\ \E bs \in 1..MaxBatchSize, dl \in BOOLEAN :
          /\ \E len \in 1..MaxDataset : train_loader = Loader(len, bs, dl)
          /\ \E len \in 1..MaxDataset : valid_loader = Loader(len, bs, dl)
    /\ loss_of \in [LossPlaces -> LossValues]
    /\ pc = "tl_init"
    /\ epoch = 0
    /\ training = TRUE
    /\ grad_enabled = TRUE
    /\ grad_stack = << >>
    /\ params = 0
    /\ opt_state = 0
    /\ grads = 0
    /\ graph = FALSE
    /\ train_losses = << >>
    /\ valid_losses = << >>
    /\ console = << >>
    /\ n_plots = 0
    /\ returned = FALSE
    /\ i = 0
    /\ X_size = 0
    /\ loss = 0
    /\ running_loss = 0
    /\ correct_pred = IntZero
    /\ n = 0
    /\ batch_correct = 0
    /\ which = None
    /\ accs = << >>
    /\ seen = << >>
    /\ events = << >>
    /\ fwd_log = << >>
    /\ train_runs = 0
    /\ valid_runs = 0
    /\ last_ret = << >>
    /\ snap = << >>
    /\ faults = 0

\* ------------------------------------------------------- training_loop
\* best_loss = 1e10; train_losses = []; valid_losses = []
TlInit ==
    /\ pc = "tl_init"
    /\ train_losses' = << >>
    /\ valid_losses' = << >>
    /\ pc' = "tl_for"
    /\ UNCHANGED << inputs, modelState, gradCtx, epoch, console, n_plots, returned,
                    accs, frame, accFrame, observers, faults >>

\* for epoch in range(epochs): the next epoch calls train, the end leaves the loop
TlFor ==
    /\ pc = "tl_for"
    /\ pc' = IF epoch < epochs THEN "tr_mode" ELSE "tl_plot"
    /\ UNCHANGED << inputs, modelState, gradCtx, loopState, frame, accFrame,
                    observers, faults >>

\* ---------------------------------------------------------------- train
\* model.train(); running_loss = 0
TrainEnterNoMode ==
    /\ pc = "tr_mode"
    /\ running_loss' = 0
    /\ i' = 0
    /\ seen' = << >>
    /\ events' = << >>
    /\ last_ret' = << >>
    /\ pc' = "tr_for"
    /\ UNCHANGED << inputs, modelState, gradCtx, loopState, X_size, loss, accFrame,
                    fwd_log, train_runs, valid_runs, snap, faults >>

TrainEnter ==
    /\ pc = "tr_mode"
    /\ training' = TRUE
    /\ running_loss' = 0
    /\ i' = 0
    /\ seen' = << >>
    /\ events' = << >>
    /\ last_ret' = << >>
    /\ pc' = "tr_for"
    /\ UNCHANGED << inputs, gradCtx, params, opt_state, grads, graph, loopState,
                    X_size, loss, accFrame, fwd_log, train_runs, valid_runs,
                    snap, faults >>

\* for X, y_true in train_loader: take the next batch, or leave the loop
TrainFor ==
    /\ pc = "tr_for"
    /\ IF i < Len(BatchSizes(train_loader))
          THEN /\ X_size' = BatchSizes(train_loader)[i + 1]
               /\ i' = i + 1
               /\ events' = << >>
               /\ pc' = "tr_zero"
          ELSE /\ pc' = "tr_ret"
               /\ UNCHANGED << X_size, i, events >>
    /\ UNCHANGED << inputs, modelState, gradCtx, loopState, loss, running_loss,
                    accFrame, seen, fwd_log, train_runs, valid_runs, last_ret,
                    snap, faults >>

\* optimizer.zero_grad()
TrainZeroGradSkipped ==
    /\ pc = "tr_zero"
    /\ events' = Append(events, "zero_grad")
    /\ pc' = "tr_fwd"
    /\ UNCHANGED << inputs, modelState, gradCtx, loopState, frame, accFrame, seen,
                    fwd_log, train_runs, valid_runs, last_ret, snap, faults >>

TrainZeroGrad ==
    /\ pc = "tr_zero"
    /\ grads' = 0
    /\ events' = Append(events, "zero_grad")
    /\ pc' = "tr_fwd"
    /\ UNCHANGED << inputs, training, params, opt_state, graph, gradCtx, loopState,
                    frame, accFrame, seen, fwd_log, train_runs, valid_runs,
                    last_ret, snap, faults >>

\* y_hat, _ = model(X)
TrainForward ==
    /\ pc = "tr_fwd"
    /\ graph' = grad_enabled
    /\ fwd_log' = << "train", training, grad_enabled >>
    /\ events' = Append(events, "forward")
    /\ pc' = "tr_loss"
    /\ UNCHANGED << inputs, training, params, opt_state, grads, gradCtx, loopState,
                    frame, accFrame, seen, train_runs, valid_runs, last_ret, snap,
                    faults >>

\* loss = criterion(y_hat, y_true)
TrainLoss ==
    /\ pc = "tr_loss"
    /\ loss' = loss_of[i % 2]
    /\ events' = Append(events, "loss")
    /\ pc' = "tr_acc"
    /\ UNCHANGED << inputs, modelState, gradCtx, loopState, i, X_size, running_loss,
                    accFrame, seen, fwd_log, train_runs, valid_runs, last_ret,
                    snap, faults >>

\* running_loss += loss.item() * X.size(0)
TrainAccum ==
    /\ pc = "tr_acc"
    /\ running_loss' = running_loss + loss * X_size
    /\ seen' = Append(seen, << X_size, loss >>)
    /\ events' = Append(events, "accumulate")
    /\ pc' = "tr_bwd"
    /\ UNCHANGED << inputs, modelState, gradCtx, loopState, i, X_size, loss,
                    accFrame, fwd_log, train_runs, valid_runs, last_ret, snap,
                    faults >>

\* loss.backward(): adds this batch's gradients to the .grad buffers
TrainBackward ==
    /\ pc = "tr_bwd"
    /\ graph
    /\ grads' = grads + 1
    /\ events' = Append(events, "backward")
    /\ pc' = "tr_step"
    /\ UNCHANGED << inputs, training, params, opt_state, graph, gradCtx, loopState,
                    frame, accFrame, seen, fwd_log, train_runs, valid_runs,
                    last_ret, snap, faults >>

\* optimizer.step()
TrainStep ==
    /\ pc = "tr_step"
    /\ params' = params + 1
    /\ opt_state' = opt_state + 1
    /\ events' = Append(events, "step")
    /\ pc' = "tr_for"
    /\ UNCHANGED << inputs, training, grads, graph, gradCtx, loopState, frame,
                    accFrame, seen, fwd_log, train_runs, valid_runs, last_ret,
                    snap, faults >>

\* epoch_loss = running_loss / len(loader.dataset), of train and of validate
EpochLoss(rl, ld) == << rl, DatasetLen(ld) >>

\* return model, optimizer, epoch_loss; train_losses.append(train_loss)
TrainReturnOverwrite ==
    /\ pc = "tr_ret"
    /\ last_ret' = EpochLoss(running_loss, train_loader)
    /\ train_losses' = << EpochLoss(running_loss, train_loader) >>
    /\ train_runs' = train_runs + 1
    /\ i' = 0 /\ X_size' = 0 /\ loss' = 0 /\ running_loss' = 0
    /\ pc' = "tl_nograd"
    /\ UNCHANGED << inputs, modelState, gradCtx, epoch, valid_losses, console,
                    n_plots, returned, accs, accFrame, seen, events, fwd_log,
                    valid_runs, snap, faults >>

TrainReturn ==
    /\ pc = "tr_ret"
    /\ last_ret' = EpochLoss(running_loss, train_loader)
    /\ train_losses' = Append(train_losses, EpochLoss(running_loss, train_loader))
    /\ train_runs' = train_runs + 1
    /\ i' = 0 /\ X_size' = 0 /\ loss' = 0 /\ running_loss' = 0
    /\ pc' = "tl_nograd"
    /\ UNCHANGED << inputs, modelState, gradCtx, epoch, valid_losses, console,
                    n_plots, returned, accs, accFrame, seen, events, fwd_log,
                    valid_runs, snap, faults >>

\* with torch.no_grad():
TlNoGrad ==
    /\ pc = "tl_nograd"
    /\ grad_stack' = << grad_enabled >> \o grad_stack
    /\ grad_enabled' = FALSE
    /\ pc' = "va_mode"
    /\ UNCHANGED << inputs, modelState, loopState, frame, accFrame, observers,
                    faults >>

\* ------------------------------------------------------------- validate
\* model.eval(); running_loss = 0
ValEnter ==
    /\ pc = "va_mode"
    /\ training' = FALSE
    /\ running_loss' = 0
    /\ i' = 0
    /\ seen' = << >>
    /\ last_ret' = << >>
    /\ snap' = << params, opt_state, grads >>
    /\ pc' = "va_for"
    /\ UNCHANGED << inputs, gradCtx, params, opt_state, grads, graph, loopState,
                    X_size, loss, accFrame, events, fwd_log, train_runs,
                    valid_runs, faults >>

\* for X, y_true in valid_loader: take the next batch, or leave the loop
ValFor ==
    /\ pc = "va_for"
    /\ IF i < Len(BatchSizes(valid_loader))
          THEN /\ X_size' = BatchSizes(valid_loader)[i + 1]
               /\ i' = i + 1
               /\ pc' = "va_fwd"
          ELSE /\ pc' = "va_ret"
               /\ UNCHANGED << X_size, i >>
    /\ UNCHANGED << inputs, modelState, gradCtx, loopState, loss, running_loss,
                    accFrame, observers, faults >>

\* y_hat, _ = model(X)
ValForward ==
    /\ pc = "va_fwd"
    /\ graph' = grad_enabled
    /\ fwd_log' = << "validate", training, grad_enabled >>
    /\ pc' = "va_loss"
    /\ UNCHANGED << inputs, training, params, opt_state, grads, gradCtx, loopState,
                    frame, accFrame, seen, events, train_runs, valid_runs,
                    last_ret, snap, faults >>

\* loss = criterion(y_hat, y_true)
ValLoss ==
    /\ pc = "va_loss"
    /\ loss' = loss_of[i % 2]
    /\ pc' = "va_acc"
    /\ UNCHANGED << inputs, modelState, gradCtx, loopState, i, X_size, running_loss,
                    accFrame, observers, faults >>

\* running_loss += loss.item() * X.size(0)
ValAccumAndStep ==
    /\ pc = "va_acc"
    /\ running_loss' = running_loss + loss * X_size
    /\ seen' = Append(seen, << X_size, loss >>)
    /\ params' = params + 1
    /\ opt_state' = opt_state + 1
    /\ pc' = "va_for"
    /\ UNCHANGED << inputs, training, grads, graph, gradCtx, loopState, i, X_size,
                    loss, accFrame, events, fwd_log, train_runs, valid_runs,
                    last_ret, snap, faults >>

ValAccum ==
    /\ pc = "va_acc"
    /\ running_loss' = running_loss + loss * X_size
    /\ seen' = Append(seen, << X_size, loss >>)
    /\ pc' = "va_for"
    /\ UNCHANGED << inputs, modelState, gradCtx, loopState, i, X_size, loss,
                    accFrame, events, fwd_log, train_runs, valid_runs, last_ret,
                    snap, faults >>

\* return model, epoch_loss; valid_losses.append(valid_loss); the with block ends
ValReturn ==
    /\ pc = "va_ret"
    /\ last_ret' = EpochLoss(running_loss, valid_loader)
    /\ valid_losses' = Append(valid_losses, EpochLoss(running_loss, valid_loader))
    /\ valid_runs' = valid_runs + 1
    /\ i' = 0 /\ X_size' = 0 /\ loss' = 0 /\ running_loss' = 0
    /\ grad_enabled' = Head(grad_stack)
    /\ grad_stack' = Tail(grad_stack)
    /\ pc' = "tl_if"
    /\ UNCHANGED << inputs, modelState, epoch, train_losses, console, n_plots,
                    returned, accs, accFrame, seen, events, fwd_log, train_runs,
                    snap, faults >>

\* if epoch % print_every == (print_every - 1): train_acc = get_accuracy(model, train_loader)
TlIf ==
    /\ pc = "tl_if"
    /\ IF ShouldReport(epoch, print_every)
          THEN /\ which' = "train"
               /\ pc' = "ga_init"
          ELSE /\ pc' = "tl_next"
               /\ UNCHANGED which
    /\ seen' = << >>
    /\ last_ret' = << >>
    /\ UNCHANGED << inputs, modelState, gradCtx, loopState, frame, correct_pred, n,
                    batch_correct, events, fwd_log, train_runs, valid_runs, snap,
                    faults >>

\* --------------------------------------------------------- get_accuracy
\* The loader get_accuracy was called with.
DataLoaderOf(w) == IF w = "train" THEN train_loader ELSE valid_loader

\* correct_pred = 0; n = 0; with torch.no_grad(): model.eval()
GaEnterTracking ==
    /\ pc = "ga_init"
    /\ correct_pred' = IntZero
    /\ n' = 0
    /\ batch_correct' = 0
    /\ grad_stack' = << grad_enabled >> \o grad_stack
    /\ grad_enabled' = grad_enabled
    /\ training' = FALSE
    /\ i' = 0
    /\ seen' = << >>
    /\ last_ret' = << >>
    /\ snap' = << params, opt_state, grads >>
    /\ pc' = "ga_for"
    /\ UNCHANGED << inputs, params, opt_state, grads, graph, loopState, X_size,
                    loss, running_loss, which, events, fwd_log, train_runs,
                    valid_runs, faults >>

GaEnter ==
    /\ pc = "ga_init"
    /\ correct_pred' = IntZero
    /\ n' = 0
    /\ batch_correct' = 0
    /\ grad_stack' = << grad_enabled >> \o grad_stack
    /\ grad_enabled' = FALSE
    /\ training' = FALSE
    /\ i' = 0
    /\ seen' = << >>
    /\ last_ret' = << >>
    /\ snap' = << params, opt_state, grads >>
    /\ pc' = "ga_for"
    /\ UNCHANGED << inputs, params, opt_state, grads, graph, loopState, X_size,
                    loss, running_loss, which, events, fwd_log, train_runs,
                    valid_runs, faults >>

\* for X, y_true in data_loader: take the next batch, or leave the loop
GaFor ==
    /\ pc = "ga_for"
    /\ IF i < Len(BatchSizes(DataLoaderOf(which)))
          THEN /\ X_size' = BatchSizes(DataLoaderOf(which))[i + 1]
               /\ i' = i + 1
               /\ pc' = "ga_fwd"
          ELSE /\ pc' = "ga_ret"
               /\ UNCHANGED << X_size, i >>
    /\ UNCHANGED << inputs, modelState, gradCtx, loopState, loss, running_loss,
                    accFrame, observers, faults >>

\* _, y_prob = model(X)
GaForward ==
    /\ pc = "ga_fwd"
    /\ graph' = grad_enabled
    /\ fwd_log' = << "get_accuracy", training, grad_enabled >>
    /\ pc' = "ga_max"
    /\ UNCHANGED << inputs, training, params, opt_state, grads, gradCtx, loopState,
                    frame, accFrame, seen, events, train_runs, valid_runs,
                    last_ret, snap, faults >>

\* _, predicted_labels = torch.max(y_prob, 1); (predicted_labels == y_true).sum()
GaPredict ==
    /\ pc = "ga_max"
    /\ \E c \in 0..X_size : batch_correct' = c
    /\ pc' = "ga_count"
    /\ UNCHANGED << inputs, modelState, gradCtx, loopState, frame, correct_pred, n,
                    which, observers, faults >>

\* n += y_true.size(0); correct_pred += (predicted_labels == y_true).sum()
GaCountPerBatch ==
    /\ pc = "ga_count"
    /\ n' = n + 1
    /\ correct_pred' = Tensor(correct_pred.value + batch_correct)
    /\ seen' = Append(seen, << X_size, batch_correct >>)
    /\ pc' = "ga_for"
    /\ UNCHANGED << inputs, modelState, gradCtx, loopState, frame, batch_correct,
                    which, events, fwd_log, train_runs, valid_runs, last_ret,
                    snap, faults >>

GaCount ==
    /\ pc = "ga_count"
    /\ n' = n + X_size
    /\ correct_pred' = Tensor(correct_pred.value + batch_correct)
    /\ seen' = Append(seen, << X_size, batch_correct >>)
    /\ pc' = "ga_for"
    /\ UNCHANGED << inputs, modelState, gradCtx, loopState, frame, batch_correct,
                    which, events, fwd_log, train_runs, valid_runs, last_ret,
                    snap, faults >>

\* An exception propagates out of training_loop: nothing catches it, and the
\* torch.no_grad() blocks it leaves restore the gradient switch.
RaiseSwallowed ==
    /\ faults' = faults + 1
    /\ UNCHANGED << pc, grad_enabled, grad_stack >>

Raise ==
    /\ faults' = faults + 1
    /\ pc' = "aborted"
    /\ grad_enabled' = IF grad_stack = << >> THEN grad_enabled
                       ELSE grad_stack[Len(grad_stack)]
    /\ grad_stack' = << >>

\* return correct_pred.float() / n; the caller keeps the accuracy and goes on
\* to valid_acc = get_accuracy(model, valid_loader) or to the print
GaReturn ==
    /\ pc = "ga_ret"
    /\ correct_pred.tensor
    /\ last_ret' = << correct_pred.value, n >>
    /\ accs' = Append(accs, << correct_pred.value, n >>)
    /\ grad_enabled' = Head(grad_stack)
    /\ grad_stack' = Tail(grad_stack)
    /\ correct_pred' = IntZero /\ n' = 0 /\ batch_correct' = 0
    /\ i' = 0 /\ X_size' = 0
    /\ IF which = "train"
          THEN which' = "valid" /\ pc' = "ga_init"
          ELSE which' = None /\ pc' = "tl_print"
    /\ UNCHANGED << inputs, modelState, epoch, train_losses, valid_losses, console,
                    n_plots, returned, loss, running_loss, seen, events, fwd_log,
                    train_runs, valid_runs, snap, faults >>

\* return correct_pred.float() / n when the loader gave no batch: correct_pred
\* is still the int 0, which has no float()
GaReturnNoBatch ==
    /\ pc = "ga_ret"
    /\ ~correct_pred.tensor
    /\ Raise
    /\ UNCHANGED << inputs, modelState, loopState, frame, accFrame, observers >>

\* print(f'... Epoch: {epoch} ...')
TlPrint ==
    /\ pc = "tl_print"
    /\ console' = Append(console, epoch)
    /\ accs' = << >>
    /\ seen' = << >>
    /\ last_ret' = << >>
    /\ pc' = "tl_next"
    /\ UNCHANGED << inputs, modelState, gradCtx, epoch, train_losses, valid_losses,
                    n_plots, returned, frame, accFrame, events, fwd_log, train_runs,
                    valid_runs, snap, faults >>

\* the end of the loop body: range(epochs) gives the next epoch
TlNextAndPlot ==
    /\ pc = "tl_next"
    /\ epoch' = epoch + 1
    /\ n_plots' = n_plots + 1
    /\ pc' = "tl_for"
    /\ UNCHANGED << inputs, modelState, gradCtx, train_losses, valid_losses,
                    console, returned, accs, frame, accFrame, observers, faults >>

TlNext ==
    /\ pc = "tl_next"
    /\ epoch' = epoch + 1
    /\ pc' = "tl_for"
    /\ UNCHANGED << inputs, modelState, gradCtx, train_losses, valid_losses,
                    console, n_plots, returned, accs, frame, accFrame, observers,
                    faults >>

\* plot_losses(train_losses, valid_losses)
TlPlot ==
    /\ pc = "tl_plot"
    /\ n_plots' = n_plots + 1
    /\ pc' = "tl_ret"
    /\ UNCHANGED << inputs, modelState, gradCtx, epoch, train_losses, valid_losses,
                    console, returned, accs, frame, accFrame, observers, faults >>

\* return model, optimizer, (train_losses, valid_losses)
TlReturn ==
    /\ pc = "tl_ret"
    /\ returned' = TRUE
    /\ pc' = "done"
    /\ UNCHANGED << inputs, modelState, gradCtx, epoch, train_losses, valid_losses,
                    console, n_plots, accs, frame, accFrame, observers, faults >>

\* The steps that call into the tensor, data or plotting library and may raise.
FaultPoints ==
    { "tr_for", "tr_zero", "tr_fwd", "tr_loss", "tr_acc", "tr_bwd", "tr_step",
      "va_for", "va_fwd", "va_loss", "va_acc",
      "ga_for", "ga_fwd", "ga_max", "ga_count",
      "tl_print", "tl_plot" }

\* A library call raises.
Fault ==
    /\ pc \in FaultPoints
    /\ Raise
    /\ UNCHANGED << inputs, modelState, loopState, frame, accFrame, observers >>

Next ==
    \/ TlInit \/ TlFor
    \/ TrainEnter \/ TrainFor \/ TrainZeroGrad \/ TrainForward \/ TrainLoss
    \/ TrainAccum \/ TrainBackward \/ TrainStep \/ TrainReturn
    \/ TlNoGrad
    \/ ValEnter \/ ValFor \/ ValForward \/ ValLoss \/ ValAccum \/ ValReturn
    \/ TlIf
    \/ GaEnter \/ GaFor \/ GaForward \/ GaPredict \/ GaCount \/ GaReturn
    \/ GaReturnNoBatch
    \/ TlPrint \/ TlNext \/ TlPlot \/ TlReturn
    \/ Fault

Spec == Init /\ [][Next]_vars

\* ---------------------------------------------------- program positions
TrainPCs == { "tr_mode", "tr_for", "tr_zero", "tr_fwd", "tr_loss", "tr_acc",
              "tr_bwd", "tr_step", "tr_ret" }
ValPCs == { "va_mode", "va_for", "va_fwd", "va_loss", "va_acc", "va_ret" }
GaPCs == { "ga_init", "ga_for", "ga_fwd", "ga_max", "ga_count", "ga_ret" }

\* The order of the steps train takes for one batch.
StepOrder == << "zero_grad", "forward", "loss", "accumulate", "backward", "step" >>

\* What the observers hold belongs to a call of get_accuracy that has returned.
AccuracyReturned ==
    /\ last_ret # << >>
    /\ \/ pc = "tl_print"
       \/ pc = "ga_init" /\ which = "valid"

\* What the observers hold belongs to a call of train or validate that has returned.
EpochReturned == last_ret # << >> /\ pc \in { "tl_nograd", "tl_if" }

\* The 0-indexed epochs below m whose 1-indexed number is a multiple of print_every.
ReportedBelow(m) ==
    SelectSeq([j \in 1..m |-> j - 1], LAMBDA e : (e + 1) % print_every = 0)

\* ================================================================ claims

\* C1: after a full run of training_loop the two loss histories have length
\* exactly epochs, and each holds one entry per completed call of train,
\* respectively validate: one append per epoch, nothing ever removed.
C1_LossHistoryLength ==
    /\ Len(train_losses) = train_runs
    /\ Len(valid_losses) = valid_runs
    /\ returned => Len(train_losses) = epochs /\ Len(valid_losses) = epochs

C1_Witness == returned /\ epochs >= 2 /\ Len(train_losses) >= 2

\* C2: during and after a call of validate the parameters, the optimizer state
\* and the gradient buffers are what they were when it was entered: it does no
\* backward pass and no optimizer step.
C2_ValidateFrame ==
    (pc \in (ValPCs \ { "va_mode" }) \/ pc = "tl_if")
        => << params, opt_state, grads >> = snap

C2_Witness == pc = "tl_if" /\ Len(seen) >= 2 /\ params > 0

\* C3: for every batch train takes the steps in the order zero_grad, forward,
\* loss, accumulate, backward, step; the batches come in the loader's order;
\* one optimizer step is applied per batch; and a backward pass starts from
\* cleared gradient buffers.
C3_TrainStepOrder ==
    /\ pc \in TrainPCs => /\ Len(events) <= Len(StepOrder)
                          /\ events = SubSeq(StepOrder, 1, Len(events))
    /\ pc = "tr_for" /\ i > 0 => events = StepOrder
    /\ pc \in TrainPCs \ { "tr_mode" } =>
          /\ Len(seen) <= Len(BatchSizes(train_loader))
          /\ \A j \in 1..Len(seen) : seen[j][1] = BatchSizes(train_loader)[j]
    /\ pc = "tr_for" => opt_state = train_runs * Len(BatchSizes(train_loader)) + i
    /\ pc = "tr_bwd" => grads = 0
    /\ pc = "tr_step" => grads = 1

C3_Witness == pc = "tr_for" /\ i >= 2 /\ train_runs >= 1

\* C4: the epoch loss train and validate return is the running sum of loss
\* times batch size divided by the number of samples in the batches processed.
C4_EpochLossOverProcessed ==
    EpochReturned /\ seen # << >>
        => FracEq(last_ret, << SumWeighted(seen), SumSizes(seen) >>)

\* What the code does where C4 fails: the divisor is len(loader.dataset), which
\* is the number of samples processed when the loader drops no batch.
C4_EpochLossOverDataset ==
    EpochReturned =>
        LET ld == IF pc = "tl_nograd" THEN train_loader ELSE valid_loader
        IN  /\ last_ret = << SumWeighted(seen), DatasetLen(ld) >>
            /\ ~ld.drop_last => DatasetLen(ld) = SumSizes(seen)

\* C5: a line is printed, and the two accuracies are measured, at the 0-indexed
\* epoch e exactly when e + 1 is a multiple of print_every; a full run prints
\* epochs \div print_every lines.
C5_ReportCadence ==
    /\ pc \in { "tl_for", "tl_plot", "tl_ret", "done" } => console = ReportedBelow(epoch)
    /\ pc = "tl_next" => console = ReportedBelow(epoch + 1)
    /\ pc \in GaPCs \cup { "tl_print" } => (epoch + 1) % print_every = 0
    /\ pc = "tl_print" => Len(accs) = 2
    /\ returned => Len(console) = epochs \div print_every

C5_Witness == returned /\ print_every = 2 /\ console = << 1, 3 >>

\* C6: epoch e trains, then validates, then reports, all before epoch e + 1
\* trains; the curves are plotted once, after the last epoch; the loop ends
\* after epochs calls of train and epochs calls of validate.
C6_EpochOrder ==
    /\ pc \in TrainPCs => train_runs = epoch /\ valid_runs = epoch /\ epoch < epochs
    /\ pc \in ValPCs \cup { "tl_nograd" } => train_runs = epoch + 1 /\ valid_runs = epoch
    /\ pc \in GaPCs \cup { "tl_if", "tl_print", "tl_next" } =>
          train_runs = epoch + 1 /\ valid_runs = epoch + 1
    /\ n_plots <= 1
    /\ n_plots = 1 => /\ pc \in { "tl_ret", "done" }
                      /\ train_runs = epochs /\ valid_runs = epochs
    /\ pc = "done" => n_plots = 1 /\ train_runs = epochs /\ valid_runs = epochs

C6_Witness == pc = "done" /\ epochs >= 2 /\ console # << >>

\* C7: over a non-empty loader get_accuracy returns the correct predictions of
\* all batches over the samples of all batches; the value lies in [0, 1], is 1
\* when every sample is predicted correctly and 0 when none is.
C7_AccuracyValue ==
    AccuracyReturned /\ seen # << >> =>
        /\ last_ret[2] > 0
        /\ FracEq(last_ret, << SumValues(seen), SumSizes(seen) >>)
        /\ 0 <= last_ret[1] /\ last_ret[1] <= last_ret[2]
        /\ (\A j \in 1..Len(seen) : seen[j][2] = seen[j][1]) => last_ret[1] = last_ret[2]
        /\ (\A j \in 1..Len(seen) : seen[j][2] = 0) => last_ret[1] = 0

C7_Witness ==
    /\ AccuracyReturned
    /\ Len(seen) = 2 /\ seen[1][1] # seen[2][1]
    /\ seen[1][2] = seen[1][1] /\ seen[2][2] = 0

\* C8: once an exception is raised the run is over: it was raised once, the
\* program is at no further position and takes no further step, the curves
\* were not plotted and training_loop did not return.
C8_FaultAborts ==
    /\ faults > 0 => pc = "aborted" /\ faults = 1 /\ n_plots = 0 /\ ~returned
    /\ pc = "aborted" => ~ENABLED Next

C8_Witness == pc = "aborted" /\ train_runs >= 1 /\ i >= 1 /\ opt_state > 0

\* C9: every forward pass of get_accuracy runs with gradient tracking off and
\* the model in inference mode, and get_accuracy leaves the parameters, the
\* optimizer state and the gradient buffers as it found them.
C9_AccuracyFrame ==
    /\ fwd_log # << >> /\ fwd_log[1] = "get_accuracy" => ~fwd_log[2] /\ ~fwd_log[3]
    /\ pc \in GaPCs \ { "ga_init" } =>
          ~grad_enabled /\ ~training /\ << params, opt_state, grads >> = snap
    /\ AccuracyReturned => << params, opt_state, grads >> = snap

C9_Witness == pc = "tl_print" /\ params > 0 /\ fwd_log[1] = "get_accuracy"

\* C10: every forward pass and optimizer step of train finds the model in
\* training mode, every forward pass of validate finds it in inference mode
\* with gradient tracking off, and validate and get_accuracy return with the
\* model in inference mode.
C10_Modes ==
    /\ fwd_log # << >> /\ fwd_log[1] = "train" => fwd_log[2]
    /\ pc \in { "tr_fwd", "tr_step" } => training
    /\ fwd_log # << >> /\ fwd_log[1] = "validate" => ~fwd_log[2] /\ ~fwd_log[3]
    /\ pc \in { "tl_if", "tl_print" } => ~training

C10_Witness == pc = "tr_step" /\ train_runs >= 1 /\ console # << >>

====
